---- MODULE Spec2Model ----
(***************************************************************************)
(* Model of src/data_processing.py: root2pandas (record loader), build_X   *)
(* (feature slicer), read_in (class aggregator, label and weight          *)
(* extraction) and scale_shuffle_split.                                    *)
(*                                                                         *)
(* Python strings that the code inspects (column names, class labels) are *)
(* tuples of one-character strings, so that startswith and the sort order *)
(* of np.unique are computed and not assumed.  Glob patterns and file     *)
(* paths are opaque strings: the code only hands them to glob/root2array. *)
(***************************************************************************)
EXTENDS Integers, Sequences, FiniteSets, TLC

VARIABLES class_files_dict, pc, i, all_events, X_jets, X_photons, X_muons,
          le_classes, y, w, err, sss_pc, sss_err, sss_out

vars == <<class_files_dict, pc, i, all_events, X_jets, X_photons, X_muons,
          le_classes, y, w, err, sss_pc, sss_err, sss_out>>

\* Largest number of classes in the input mapping.
MaxClasses == 2

Range(s) == {s[k] : k \in 1..Len(s)}

(***************************************************************************)
(* Cells of a table.  NaN is the absence marker pandas fills in.           *)
(***************************************************************************)
Num(n) == [kind |-> "num", num |-> n, str |-> <<>>]
Str(s) == [kind |-> "str", num |-> 0, str |-> s]
NaN == [kind |-> "nan", num |-> 0, str |-> <<>>]

\* What an uninitialised cell of np.empty can hold: anything, a number that
\* looks like data or, by chance, a NaN bit pattern.
GarbageVals == {Num(0), NaN}

(***************************************************************************)
(* Character order of Python 2 byte strings (ASCII codes).                 *)
(***************************************************************************)
Ord(c) ==
  CASE c = "E" -> 69 [] c = "J" -> 74 [] c = "M" -> 77 [] c = "P" -> 80
    [] c = "S" -> 83 [] c = "W" -> 87
    [] c = "a" -> 97 [] c = "b" -> 98 [] c = "c" -> 99 [] c = "d" -> 100
    [] c = "e" -> 101 [] c = "g" -> 103 [] c = "h" -> 104 [] c = "i" -> 105
    [] c = "j" -> 106 [] c = "k" -> 107 [] c = "n" -> 110 [] c = "o" -> 111
    [] c = "q" -> 113 [] c = "s" -> 115 [] c = "t" -> 116 [] c = "u" -> 117
    [] c = "v" -> 118 [] c = "y" -> 121

\* a < b for Python strings: lexicographic by character code, a proper
\* prefix before the longer string.
RECURSIVE StrLess(_, _)
StrLess(a, b) ==
  IF b = <<>> THEN FALSE
  ELSE IF a = <<>> THEN TRUE
  ELSE IF Head(a) = Head(b) THEN StrLess(Tail(a), Tail(b))
  ELSE Ord(Head(a)) < Ord(Head(b))

\* sorted(S) for a set of strings.
RECURSIVE SortStrings(_)
SortStrings(S) ==
  IF S = {} THEN <<>>
  ELSE LET m == CHOOSE x \in S : \A z \in S : z = x \/ StrLess(x, z)
       IN <<m>> \o SortStrings(S \ {m})

(***************************************************************************)
(* Column names and class labels.                                          *)
(***************************************************************************)
cJetPt == <<"J", "e", "t", "P", "t">>
cjetEta == <<"j", "e", "t", "E", "t", "a">>
cSubJetM == <<"S", "u", "b", "J", "e", "t", "M">>
cPhotonE == <<"P", "h", "o", "t", "o", "n", "E">>
cMuonPt == <<"M", "u", "o", "n", "P", "t">>
cEventWeight == <<"E", "v", "e", "n", "t", "W", "e", "i", "g", "h", "t">>
cY == <<"y">>

pJet == <<"J", "e", "t">>
pPhoton == <<"P", "h", "o", "t", "o", "n">>
pMuon == <<"M", "u", "o", "n">>

lSig == <<"s", "i", "g">>
lBkg == <<"b", "k", "g">>
lQcd == <<"q", "c", "d">>
Labels == {lSig, lBkg, lQcd}

(***************************************************************************)
(* The file system and the decoder: what glob.glob returns for a pattern  *)
(* and what root2array returns for a path (the 'events' tree as a record  *)
(* array: its field names in order and its records).                       *)
(***************************************************************************)
Rec(cols, vals) == [c \in Range(cols) |->
                      vals[CHOOSE k \in 1..Len(cols) : cols[k] = c]]

colsA == <<cJetPt, cPhotonE, cEventWeight>>
colsB1 == <<cJetPt, cjetEta, cEventWeight>>
colsB2 == <<cMuonPt, cJetPt, cEventWeight>>
colsC == <<cSubJetM, cMuonPt>>

root2array(fpath) ==
  CASE fpath = "a.root" ->
         [cols |-> colsA,
          rows |-> <<Rec(colsA, <<Num(11), Num(12), Num(1)>>),
                     Rec(colsA, <<Num(21), Num(22), Num(2)>>)>>]
    [] fpath = "b1.root" ->
         [cols |-> colsB1,
          rows |-> <<Rec(colsB1, <<Num(31), Num(32), Num(3)>>)>>]
    [] fpath = "b2.root" ->
         [cols |-> colsB2,
          rows |-> <<Rec(colsB2, <<Num(41), Num(42), Num(4)>>)>>]
    [] fpath = "c.root" ->
         [cols |-> colsC,
          rows |-> <<Rec(colsC, <<Num(51), Num(52)>>)>>]
    [] fpath = "e.root" ->
         [cols |-> colsA, rows |-> <<>>]

glob(pattern) ==
  CASE pattern = "a.root" -> <<"a.root">>
    [] pattern = "b*.root" -> <<"b1.root", "b2.root">>
    [] pattern = "c.root" -> <<"c.root">>
    [] pattern = "e.root" -> <<"e.root">>
    [] pattern = "none*.root" -> <<>>

\* A file_paths argument: one pattern string, or a list of patterns.
OnePattern(p) == [isstr |-> TRUE, pats |-> <<p>>]
PatternList(ps) == [isstr |-> FALSE, pats |-> ps]

FilePathChoices ==
  {OnePattern("a.root"), OnePattern("b*.root"), OnePattern("none*.root"),
   PatternList(<<"c.root">>), PatternList(<<"none*.root", "e.root">>),
   PatternList(<<>>), PatternList(<<"e.root", "a.root">>)}

(***************************************************************************)
(* root2pandas, lines 9-32.                                                *)
(***************************************************************************)
RECURSIVE GlobAll(_)
GlobAll(pats) ==
  IF pats = <<>> THEN <<>> ELSE glob(Head(pats)) \o GlobAll(Tail(pats))

\* lines 23-26: the files a file_paths argument expands to.
ExpandFiles(file_paths) ==
  IF file_paths.isstr THEN glob(file_paths.pats[1])
  ELSE GlobAll(file_paths.pats)

\* stack_arrays' field list: the first array's fields, then every new field
\* in order of first occurrence.
RECURSIVE AppendNew(_, _)
AppendNew(names, more) ==
  IF more = <<>> THEN names
  ELSE AppendNew(IF Head(more) \in Range(names) THEN names
                 ELSE Append(names, Head(more)), Tail(more))

RECURSIVE StackCols(_, _)
StackCols(names, arrays) ==
  IF arrays = <<>> THEN names
  ELSE StackCols(AppendNew(names, Head(arrays).cols), Tail(arrays))

\* The cells stack_arrays never assigns: row k of the output comes from an
\* array that has no field c.
RECURSIVE StackMask(_, _, _)
StackMask(arrays, cols, off) ==
  IF arrays = <<>> THEN {}
  ELSE LET a == Head(arrays)
       IN {<<off + r, c>> : r \in 1..Len(a.rows),
                            c \in Range(cols) \ Range(a.cols)}
          \cup StackMask(Tail(arrays), cols, off + Len(a.rows))

\* The output buffer: ma.masked_all allocates it with np.empty, each array's
\* fields are copied into its block of rows, and an unassigned cell keeps
\* whatever the allocation held (g).
RECURSIVE StackData(_, _, _, _)
StackData(arrays, cols, g, off) ==
  IF arrays = <<>> THEN <<>>
  ELSE LET a == Head(arrays)
       IN [r \in 1..Len(a.rows) |->
             [c \in Range(cols) |->
                IF c \in Range(a.cols) THEN a.rows[r][c]
                ELSE g[<<off + r, c>>]]]
          \o StackData(Tail(arrays), cols, g, off + Len(a.rows))

\* numpy.lib.recfunctions.stack_arrays as called on line 28 (usemask=True).
\* One array is returned as it is; an empty list fails on ndtype[0].
stack_arrays(arrays, g) ==
  IF Len(arrays) = 0 THEN
    [err |-> "IndexError", masked |-> FALSE, cols |-> <<>>, data |-> <<>>,
     mask |-> {}]
  ELSE IF Len(arrays) = 1 THEN
    [err |-> "None", masked |-> FALSE, cols |-> arrays[1].cols,
     data |-> arrays[1].rows, mask |-> {}]
  ELSE LET cols == StackCols(arrays[1].cols, Tail(arrays))
       IN [err |-> "None", masked |-> TRUE, cols |-> cols,
           data |-> StackData(arrays, cols, g, 0),
           mask |-> StackMask(arrays, cols, 0)]

\* pd.DataFrame(ss): a masked cell becomes NaN.
DataFrameOfMasked(ss) ==
  [kind |-> "df", cols |-> ss.cols,
   rows |-> [k \in 1..Len(ss.data) |->
               [c \in Range(ss.cols) |->
                  IF <<k, c>> \in ss.mask THEN NaN ELSE ss.data[k][c]]]]

\* pd.DataFrame(ss.data): the buffer without its mask.
DataFrameOfData(ss) ==
  [kind |-> "df", cols |-> ss.cols, rows |-> ss.data]

\* The cells that g has to give a value to for this call.
MaskedCells(file_paths) ==
  LET files == ExpandFiles(file_paths)
      arrays == [k \in 1..Len(files) |-> root2array(files[k])]
  IN IF Len(arrays) < 2 THEN {}
     ELSE StackMask(arrays, StackCols(arrays[1].cols, Tail(arrays)), 0)

\* root2pandas(file_paths, 'events').  df_raises: whether pd.DataFrame
\* rejects the masked structured array (it depends on the pandas build; the
\* docstring's note is about this case), which sends the call to line 32.
root2pandas(file_paths, g, df_raises) ==
  LET files == ExpandFiles(file_paths)
      ss == stack_arrays([k \in 1..Len(files) |-> root2array(files[k])], g)
  IN IF ss.err # "None" THEN [err |-> ss.err, df |-> DataFrameOfData(ss)]
     ELSE IF ss.masked /\ df_raises
          THEN [err |-> "None", df |-> DataFrameOfData(ss)]
          ELSE [err |-> "None", df |-> DataFrameOfMasked(ss)]

(***************************************************************************)
(* build_X, lines 35-44.                                                   *)
(***************************************************************************)
\* Variant of startswith: phrase anywhere in key ("phrase in key").
startswith_anywhere(key, phrase) ==
  \E a \in 1..(Len(key) + 1) :
    /\ a + Len(phrase) - 1 <= Len(key)
    /\ SubSeq(key, a, a + Len(phrase) - 1) = phrase

\* key.startswith(phrase)
startswith(key, phrase) ==
  Len(phrase) <= Len(key) /\ SubSeq(key, 1, Len(phrase)) = phrase

\* events[[key for key in events.keys() if key.startswith(phrase)]]
\* .as_matrix(): one row per event, the selected columns in keys() order.
build_X(events, phrase) ==
  LET keys == SelectSeq(events.cols, LAMBDA key : startswith(key, phrase))
  IN [r \in 1..Len(events.rows) |->
        [k \in 1..Len(keys) |-> events.rows[r][keys[k]]]]

(***************************************************************************)
(* read_in, lines 46-96.                                                   *)
(***************************************************************************)
\* all_events = False (line 76)
FalseValue == [kind |-> "bool", cols |-> <<>>, rows |-> <<>>]

\* df[c] = value: an existing column is overwritten in place, a new one is
\* appended as the last column.
SetColumn(df, c, value) ==
  [kind |-> "df",
   cols |-> IF c \in Range(df.cols) THEN df.cols ELSE Append(df.cols, c),
   rows |-> [r \in 1..Len(df.rows) |->
               [k \in Range(df.cols) \cup {c} |->
                  IF k = c THEN value ELSE df.rows[r][k]]]]

\* Columns of pd.concat([a, b]): equal column lists are kept; otherwise the
\* union, sorted by the pandas of the code's time and in order of appearance
\* by later ones (sorted tells which).
ConcatCols(a, b, sorted) ==
  IF a.cols = b.cols THEN a.cols
  ELSE IF sorted THEN SortStrings(Range(a.cols) \cup Range(b.cols))
  ELSE AppendNew(a.cols, b.cols)

\* Variant of concat: the new frame replaces the frames before it.
concat_overwrite(a, b, sorted) ==
  LET cols == ConcatCols(a, b, sorted)
  IN [kind |-> "df", cols |-> cols,
      rows |-> [r \in 1..Len(b.rows) |->
                  [c \in Range(cols) |->
                     IF c \in Range(b.cols) THEN b.rows[r][c] ELSE NaN]]]

\* Variant of concat: the new frame is put in front ([df, all_events]).
concat_swapped(a, b, sorted) ==
  LET cols == ConcatCols(a, b, sorted)
      Widen(t) == [r \in 1..Len(t.rows) |->
                     [c \in Range(cols) |->
                        IF c \in Range(t.cols) THEN t.rows[r][c] ELSE NaN]]
  IN [kind |-> "df", cols |-> cols, rows |-> Widen(b) \o Widen(a)]

\* pd.concat([a, b], ignore_index=True): the rows of a, then the rows of b,
\* renumbered; a column a frame lacks is NaN in its rows.
concat(a, b, sorted) ==
  LET cols == ConcatCols(a, b, sorted)
      Widen(t) == [r \in 1..Len(t.rows) |->
                     [c \in Range(cols) |->
                        IF c \in Range(t.cols) THEN t.rows[r][c] ELSE NaN]]
  IN [kind |-> "df", cols |-> cols, rows |-> Widen(a) \o Widen(b)]

\* Variant of the fit: classes in order of first appearance (pd.unique).
LabelEncoderFit_firstseen(values) == AppendNew(<<>>, values)

\* np.unique(values): the distinct values, sorted.
LabelEncoderFit(values) == SortStrings(Range(values))

\* Variant of fit_transform: codes counted from 1.
fit_transform_from1(values) ==
  LET classes == SortStrings(Range(values))
  IN [k \in 1..Len(values) |->
        CHOOSE c \in 1..Len(classes) : classes[c] = values[k]]

\* LabelEncoder().fit_transform(values): each value's position in classes_,
\* counted from 0.
fit_transform(values) ==
  LET classes == LabelEncoderFit(values)
  IN [k \in 1..Len(values) |->
        (CHOOSE c \in 1..Len(classes) : classes[c] = values[k]) - 1]

\* Variant of the column read: the values last row first.
ColumnValues_reversed(events, c) ==
  [r \in 1..Len(events.rows) |->
     events.rows[Len(events.rows) + 1 - r][c]]

\* all_events[c].values
ColumnValues(events, c) == [r \in 1..Len(events.rows) |-> events.rows[r][c]]

\* The input: class_files_dict.keys() in iteration order, each key with its
\* file_paths value.
RECURSIVE Mappings(_)
Mappings(n) ==
  IF n = 0 THEN {<<>>}
  ELSE LET shorter == Mappings(n - 1)
       IN shorter \cup
          {Append(m, [key |-> l, file_paths |-> fp]) :
             m \in {s \in shorter : Len(s) = n - 1},
             l \in Labels, fp \in FilePathChoices}

DistinctKeys(m) == \A a, b \in 1..Len(m) : m[a].key = m[b].key => a = b

Init ==
  /\ class_files_dict \in {m \in Mappings(MaxClasses) : DistinctKeys(m)}
  /\ pc = "loop"
  /\ i = 1
  /\ all_events = FalseValue
  /\ X_jets = <<>>
  /\ X_photons = <<>>
  /\ X_muons = <<>>
  /\ le_classes = <<>>
  /\ y = <<>>
  /\ w = <<>>
  /\ err = "None"
  /\ sss_pc = "idle"
  /\ sss_err = "None"
  /\ sss_out = <<>>

sssVars == <<sss_pc, sss_err, sss_out>>

\* lines 77-83: one iteration of the loop over class_files_dict.keys().
LoadClass ==
  /\ pc = "loop"
  /\ i <= Len(class_files_dict)
  /\ LET key == class_files_dict[i].key
         file_paths == class_files_dict[i].file_paths
     IN \E df_raises \in BOOLEAN, sorted \in BOOLEAN,
           g \in [MaskedCells(file_paths) -> GarbageVals] :
          LET loaded == root2pandas(file_paths, g, df_raises)
              df == SetColumn(loaded.df, cY, Str(key))
          IN IF loaded.err # "None"
             THEN /\ pc' = "raised"
                  /\ err' = loaded.err
                  /\ UNCHANGED <<i, all_events>>
             ELSE /\ all_events' = IF all_events = FalseValue THEN df
                                   ELSE concat(all_events, df, sorted)
                  /\ i' = i + 1
                  /\ UNCHANGED <<pc, err>>
  /\ UNCHANGED <<class_files_dict, X_jets, X_photons, X_muons, le_classes,
                 y, w>>
  /\ UNCHANGED sssVars

\* lines 85-88: the three feature matrices.  With no class at all,
\* all_events is still False and events.keys() fails.
SliceBranches ==
  /\ pc = "loop"
  /\ i > Len(class_files_dict)
  /\ IF all_events.kind = "bool"
     THEN /\ pc' = "raised"
          /\ err' = "AttributeError"
          /\ UNCHANGED <<X_jets, X_photons, X_muons>>
     ELSE /\ X_jets' = build_X(all_events, pJet)
          /\ X_photons' = build_X(all_events, pPhoton)
          /\ X_muons' = build_X(all_events, pMuon)
          /\ pc' = "encode"
          /\ UNCHANGED err
  /\ UNCHANGED <<class_files_dict, i, all_events, le_classes, y, w>>
  /\ UNCHANGED sssVars

\* lines 90-92: the label encoder is fitted on the 'y' column and applied.
EncodeLabels ==
  /\ pc = "encode"
  /\ LET tags == [r \in 1..Len(all_events.rows) |->
                    all_events.rows[r][cY].str]
     IN /\ le_classes' = LabelEncoderFit(tags)
        /\ y' = fit_transform(tags)
  /\ pc' = "weights"
  /\ UNCHANGED <<class_files_dict, i, all_events, X_jets, X_photons,
                 X_muons, w, err>>
  /\ UNCHANGED sssVars

\* Variant of lines 94-96: a missing weight column is read as all NaN
\* (all_events.get('EventWeight', nan)) and read_in returns.
ExtractWeights_default ==
  /\ pc = "weights"
  /\ w' = [r \in 1..Len(all_events.rows) |->
             IF cEventWeight \in Range(all_events.cols)
             THEN all_events.rows[r][cEventWeight] ELSE NaN]
  /\ pc' = "done"
  /\ UNCHANGED <<class_files_dict, i, all_events, X_jets, X_photons,
                 X_muons, le_classes, y, err, sss_pc, sss_err, sss_out>>

\* lines 94-96: the weight column, then the return.  A column that is not
\* there is a KeyError.
ExtractWeights ==
  /\ pc = "weights"
  /\ IF cEventWeight \in Range(all_events.cols)
     THEN /\ w' = ColumnValues(all_events, cEventWeight)
          /\ pc' = "done"
          /\ UNCHANGED err
     ELSE /\ pc' = "raised"
          /\ err' = "KeyError"
          /\ UNCHANGED w
  /\ UNCHANGED <<class_files_dict, i, all_events, X_jets, X_photons,
                 X_muons, le_classes, y>>
  /\ UNCHANGED sssVars

(***************************************************************************)
(* scale_shuffle_split, lines 99-131.  (Its docstring is indented deeper   *)
(* than its body, so the file as a whole is rejected by the compiler with  *)
(* an IndentationError at line 122; the body is modelled as written.)      *)
(***************************************************************************)
\* The names bound at module level: the imports of lines 1-7 and the four
\* functions.
ModuleGlobals ==
  {"np", "stack_arrays", "root2array", "pd", "glob", "argparse",
   "LabelEncoder", "root2pandas", "build_X", "read_in",
   "scale_shuffle_split"}

\* The parameters of scale_shuffle_split.
SssLocals == {"X_jets", "X_photons", "X_muons", "y", "w"}

\* The names line 122 reads, in evaluation order, and those of line 124.
Line122Names == <<"train_test_split", "X1", "X2", "X3", "y", "w">>
Line124Names == <<"preprocessing">>

\* The names of a line that are bound neither locally nor at module level.
Unbound(names) ==
  SelectSeq(names, LAMBDA n : n \notin SssLocals \cup ModuleGlobals)

\* train_test_split(..., test_size=0.4): ceil(0.4 * n) test rows.
NTest(n) == (4 * n + 9) \div 10

Permutations1(n) ==
  {p \in [1..n -> 1..n] : \A a, b \in 1..n : p[a] = p[b] => a = b}

Take(arr, idx) == [k \in 1..Len(idx) |-> arr[idx[k]]]

\* A StandardScaler's output: the rows it was applied to and the rows its
\* mean and variance were fitted on.
Scaled(rows, fitted_on) == [rows |-> rows, fitted_on |-> fitted_on]

ScaleShuffleSplit ==
  /\ pc = "done"
  /\ sss_pc = "idle"
  /\ IF Unbound(Line122Names) # <<>> \/ Unbound(Line124Names) # <<>>
     THEN /\ sss_pc' = "raised"
          /\ sss_err' = "NameError"
          /\ UNCHANGED sss_out
     ELSE \E perm \in Permutations1(Len(y)) :
            LET n == Len(y)
                test == [k \in 1..NTest(n) |-> perm[k]]
                train == [k \in 1..(n - NTest(n)) |-> perm[NTest(n) + k]]
                Group(X) ==
                  [train |-> Scaled(Take(X, train), Take(X, train)),
                   test |-> Scaled(Take(X, test), Take(X, train))]
            IN /\ sss_out' =
                    [X_jets |-> Group(X_jets),
                     X_photons |-> Group(X_photons),
                     X_muons |-> Group(X_muons),
                     Y |-> [train |-> Take(y, train), test |-> Take(y, test)],
                     W |-> [train |-> Take(w, train), test |-> Take(w, test)]]
               /\ sss_pc' = "done"
               /\ UNCHANGED sss_err
  /\ UNCHANGED <<class_files_dict, pc, i, all_events, X_jets, X_photons,
                 X_muons, le_classes, y, w, err>>

Next ==
  \/ LoadClass
  \/ SliceBranches
  \/ EncodeLabels
  \/ ExtractWeights
  \/ ScaleShuffleSplit

Spec == Init /\ [][Next]_vars

(***************************************************************************)
(* What the input says the tables should hold, read off the files          *)
(* directly: the records of the first n classes in key order, each class's *)
(* files in file order, each file's records in record order.               *)
(***************************************************************************)
RECURSIVE FileRecords(_, _)
FileRecords(files, cls) ==
  IF files = <<>> THEN <<>>
  ELSE [r \in 1..Len(root2array(Head(files)).rows) |->
          [cls |-> cls, path |-> Head(files), r |-> r]]
       \o FileRecords(Tail(files), cls)

RECURSIVE SourceRecords(_)
SourceRecords(n) ==
  IF n = 0 THEN <<>>
  ELSE SourceRecords(n - 1)
       \o FileRecords(ExpandFiles(class_files_dict[n].file_paths), n)

RECURSIVE SumRowCounts(_)
SumRowCounts(n) ==
  IF n = 0 THEN 0
  ELSE SumRowCounts(n - 1)
       + Len(FileRecords(ExpandFiles(class_files_dict[n].file_paths), n))

\* The classes whose tables are in all_events.
Loaded == i - 1

HasTable == all_events.kind = "df"
Aggregated == HasTable /\ i > Len(class_files_dict)
KeyIndex(label) ==
  CHOOSE k \in 1..Len(class_files_dict) : class_files_dict[k].key = label

\* C1: the Combined Table has as many rows as the loaded classes' files have
\* records together, and each row's 'y' is the key of the class whose files
\* the row came from.
C1_RowCountAndTags ==
  HasTable =>
    /\ Len(all_events.rows) = SumRowCounts(Loaded)
    /\ \A r \in 1..Len(all_events.rows) :
         all_events.rows[r][cY] =
           Str(class_files_dict[SourceRecords(Loaded)[r].cls].key)

C1_Witness ==
  /\ Aggregated
  /\ Len(class_files_dict) = 2
  /\ Len(all_events.rows) = 4
  /\ all_events.rows[1][cY] # all_events.rows[4][cY]

\* The columns of a table whose name begins with p, compared character by
\* character, as positions in the column list.
PrefixPositions(cols, p) ==
  {j \in 1..Len(cols) :
     /\ Len(cols[j]) >= Len(p)
     /\ \A k \in 1..Len(p) : cols[j][k] = p[k]}

\* m is the matrix of exactly those columns, in column order, one row per
\* table row.
IsSliceOf(m, t, p) ==
  LET idx == PrefixPositions(t.cols, p)
  IN /\ Len(m) = Len(t.rows)
     /\ \A r \in 1..Len(t.rows) :
          /\ Len(m[r]) = Cardinality(idx)
          /\ \A j \in idx :
               m[r][Cardinality({q \in idx : q <= j})] = t.rows[r][t.cols[j]]

\* C2: when read_in has returned, the weights, the labels and the three
\* matrices have one entry per row of the Combined Table, and entry r of
\* each is taken from row r.
C2_RowAlignment ==
  pc = "done" =>
    /\ Len(w) = Len(all_events.rows)
    /\ Len(y) = Len(all_events.rows)
    /\ IsSliceOf(X_jets, all_events, pJet)
    /\ IsSliceOf(X_photons, all_events, pPhoton)
    /\ IsSliceOf(X_muons, all_events, pMuon)
    /\ \A r \in 1..Len(all_events.rows) :
         /\ w[r] = all_events.rows[r][cEventWeight]
         /\ le_classes[y[r] + 1] = all_events.rows[r][cY].str

C2_Witness ==
  /\ pc = "done"
  /\ Len(w) = 4
  /\ w[1] # w[2]
  /\ y[1] # y[4]
  /\ X_jets[1] # <<>>

\* C3: a class whose patterns expand to no file makes the load, and with it
\* read_in, fail with FileNotFound, and nothing is returned.
C3_ZeroFilesIsFileNotFound ==
  (/\ i <= Len(class_files_dict)
   /\ ExpandFiles(class_files_dict[i].file_paths) = <<>>
   /\ pc # "loop")
  => pc = "raised" /\ err = "FileNotFound" /\ X_jets = <<>> /\ w = <<>>

\* C4: the rows of the Combined Table are the classes' blocks in key order,
\* and inside a block the files' records in file order and record order.
C4_ConcatenationOrder ==
  HasTable =>
    /\ Len(all_events.rows) = Len(SourceRecords(Loaded))
    /\ \A r \in 1..Len(all_events.rows) :
         LET src == SourceRecords(Loaded)[r]
             file == root2array(src.path)
         IN \A c \in Range(file.cols) :
              all_events.rows[r][c] = file.rows[src.r][c]
    /\ \A r1, r2 \in 1..Len(all_events.rows) :
         r1 < r2 => KeyIndex(all_events.rows[r1][cY].str)
                      <= KeyIndex(all_events.rows[r2][cY].str)

C4_Witness ==
  /\ Aggregated
  /\ Len(class_files_dict) = 2
  /\ class_files_dict[1].key = lSig
  /\ class_files_dict[2].key = lBkg
  /\ class_files_dict[1].file_paths = OnePattern("b*.root")
  /\ class_files_dict[2].file_paths = PatternList(<<"e.root", "a.root">>)
  /\ Len(all_events.rows) = 4

\* The columns of all the files of the loaded classes.
SourceColumns ==
  UNION {Range(root2array(SourceRecords(Loaded)[r].path).cols) :
           r \in 1..Len(SourceRecords(Loaded))}

\* C5: the table has every record of every file as a row, and a cell whose
\* file has no such column holds the absence marker, whether the frame was
\* built on line 30 or on line 32; no column of a file with records is
\* dropped.
C5_MissingCellsAreAbsent ==
  HasTable =>
    /\ Len(all_events.rows) = Len(SourceRecords(Loaded))
    /\ SourceColumns \subseteq Range(all_events.cols)
    /\ \A r \in 1..Len(all_events.rows) :
         \A c \in Range(all_events.cols) \ {cY} :
           c \notin Range(root2array(SourceRecords(Loaded)[r].path).cols)
             => all_events.rows[r][c] = NaN

\* Prefixes to slice by: the three of read_in, the empty one, one that
\* matches nothing, one in the other case, one that occurs inside a name
\* only, and one longer than the name it begins like.
TestPhrases ==
  {pJet, pPhoton, pMuon, <<>>, <<"Q">>, <<"j", "e", "t">>, <<"e", "t">>,
   <<"J", "e", "t", "P", "t", "a">>, cY}

\* C6: build_X returns the columns whose name starts with the phrase, in
\* column order, one row per table row; no such column gives rows of width
\* zero; and the matrices sliced on lines 86-88 are still what slicing the
\* table gives afterwards.
C6_SliceByPrefix ==
  /\ HasTable =>
       \A p \in TestPhrases : IsSliceOf(build_X(all_events, p), all_events, p)
  /\ pc \in {"encode", "weights", "done"} =>
       /\ X_jets = build_X(all_events, pJet)
       /\ X_photons = build_X(all_events, pPhoton)
       /\ X_muons = build_X(all_events, pMuon)
       /\ IsSliceOf(X_jets, all_events, pJet)

C6_Witness ==
  /\ pc = "done"
  /\ {cSubJetM, cJetPt, cjetEta} \subseteq Range(all_events.cols)
  /\ Len(X_jets) = 3
  /\ Len(X_jets[1]) = 1
  /\ X_photons[1] = <<>>

\* The tags the encoder was fitted on.
Tags == [r \in 1..Len(all_events.rows) |-> all_events.rows[r][cY].str]
Encoded == pc \in {"weights", "done"} \/ (pc = "raised" /\ err = "KeyError")

\* C7: the codes of the distinct tags are distinct and are exactly
\* 0 .. (number of distinct tags - 1), equal tags have equal codes, and
\* classes_ maps every code back to its tag.
C7_LabelBijection ==
  Encoded =>
    /\ Len(y) = Len(Tags)
    /\ {y[r] : r \in 1..Len(y)} = 0..(Cardinality(Range(Tags)) - 1)
    /\ Len(le_classes) = Cardinality(Range(Tags))
    /\ \A r1, r2 \in 1..Len(y) : (Tags[r1] = Tags[r2]) <=> (y[r1] = y[r2])
    /\ \A r \in 1..Len(y) : le_classes[y[r] + 1] = Tags[r]

C7_Witness ==
  /\ pc = "done"
  /\ Cardinality(Range(Tags)) = 2
  /\ Len(y) = 3
  /\ y[1] = 1
  /\ y[3] = 0

\* C8: without an 'EventWeight' column read_in fails with the KeyError of
\* the column lookup and returns nothing; with it, w is that column as it
\* stands in the table, row by row.
C8_WeightColumn ==
  /\ pc = "done" =>
       /\ cEventWeight \in Range(all_events.cols)
       /\ Len(w) = Len(all_events.rows)
       /\ \A r \in 1..Len(w) : w[r] = all_events.rows[r][cEventWeight]
  /\ (Aggregated /\ cEventWeight \notin Range(all_events.cols)) =>
       /\ pc # "done"
       /\ w = <<>>
       /\ pc = "raised" => err = "KeyError"
       /\ sss_pc = "idle"

C8_Witness ==
  /\ pc = "raised"
  /\ err = "KeyError"
  /\ Len(all_events.rows) = 2
  /\ cEventWeight \notin Range(all_events.cols)

Reverse(s) == [k \in 1..Len(s) |-> s[Len(s) + 1 - k]]

\* C9: a tag's code is the number of distinct observed tags that sort
\* before it, so it is a function of the set of tags alone; fitting the
\* same tags in another order (reversed, or repeated) gives the same
\* classes_ and the same code for every row.
C9_CodesDependOnTagSetOnly ==
  Encoded =>
    /\ \A r \in 1..Len(y) :
         y[r] = Cardinality({t \in Range(Tags) : StrLess(t, Tags[r])})
    /\ \A other \in {Reverse(Tags), Tags \o Reverse(Tags)} :
         /\ LabelEncoderFit(other) = le_classes
         /\ \A r \in 1..Len(y) :
              \A k \in 1..Len(other) :
                other[k] = Tags[r] => fit_transform(other)[k] = y[r]

C9_Witness ==
  /\ pc = "done"
  /\ Len(class_files_dict) = 2
  /\ class_files_dict[1].key = lSig
  /\ class_files_dict[2].key = lBkg
  /\ Len(y) = 3
  /\ y[1] = 1

\* C10: the split applies one partition of the rows to the three matrices,
\* the labels and the weights, and each group's test rows are scaled with
\* the fit on that group's own training rows.
C10_SharedSplitOwnScaler ==
  sss_pc # "idle" =>
    /\ sss_pc = "done"
    /\ \E train, test \in SUBSET (1..Len(y)) :
         /\ train \cap test = {}
         /\ train \cup test = 1..Len(y)
         /\ \A name \in {"X_jets", "X_photons", "X_muons"} :
              /\ Len(sss_out[name].train.rows) = Cardinality(train)
              /\ Len(sss_out[name].test.rows) = Cardinality(test)
              /\ sss_out[name].test.fitted_on = sss_out[name].train.rows
         /\ Len(sss_out.Y.train) = Cardinality(train)
         /\ Len(sss_out.W.test) = Cardinality(test)

====
